---------------------------- MODULE Spec2Model ----------------------------
(***************************************************************************)
(* Model of the option payoff tool (app/main.py, app/i18n.py).             *)
(*                                                                         *)
(* Spec      : main() and compute_curve() in exact arithmetic.  Every      *)
(*             amount is an integer number of ticks, one tick being        *)
(*             1/Unit of a currency unit; Unit = 100 * (NumPoints - 1) is  *)
(*             the least unit in which the percent division (/ 100.0) and  *)
(*             the grid division of np.linspace (/ (num - 1)) are exact    *)
(*             for whole-number inputs.                                    *)
(* SpecLang  : language_selector() / get_lang() of i18n.py over the        *)
(*             Streamlit query parameters, session state and widget state. *)
(* SpecFP    : compute_curve() and the inference of main() on binary64     *)
(*             doubles, every operation rounded as CPython and NumPy       *)
(*             round it.                                                   *)
(***************************************************************************)
EXTENDS Integers, Sequences, FiniteSets, TLC

VARIABLES
    pc,                \* position of the page run / call
    caller,            \* "main" (Streamlit page run) or "direct" (compute_curve called directly)
    underlying_price,  \* compute_curve argument
    std_dev_pct,       \* compute_curve argument (percent)
    legs,              \* compute_curve argument: sequence of OptionLeg
    results,           \* dict returned by compute_curve (NoResults before the call; in SpecFP its locals while it runs)
    skew,              \* translation key written by main() ("" before)
    decision,          \* translation key written by main() ("" before)
    query_lang,        \* st.query_params["lang"], or Absent
    session_lang,      \* st.session_state["lang"], or Absent
    lang_select,       \* st.session_state["lang_select"] (the selectbox's value), or Absent
    rendered_for,      \* lang_code the selectbox was last rendered with (its label and index), or Absent
    lang_code,         \* language_selector local: what get_lang() returned
    chosen,            \* language_selector local: what st.selectbox returned
    lpc                \* position of the script run in language_selector

vars == <<pc, caller, underlying_price, std_dev_pct, legs, results, skew, decision,
          query_lang, session_lang, lang_select, rendered_for, lang_code, chosen, lpc>>

curveVars == <<pc, caller, underlying_price, std_dev_pct, legs, results, skew, decision>>
langVars == <<query_lang, session_lang, lang_select, rendered_for, lang_code, chosen, lpc>>

----------------------------------------------------------------------------
(* Bounds of the model *)

MaxLegs == 2           \* longest leg list drawn

(* Program constants *)

NumPoints == 400       \* np.linspace(lower, upper, 400)
ThresholdPct == 5      \* threshold = 0.05 * underlying_price

Unit == 100 * (NumPoints - 1)

Dollars(n) == n * Unit

----------------------------------------------------------------------------
(* Data model: OptionLeg *)

OptionLeg(type, pos, quantity, premium, strike) ==
    [type |-> type, pos |-> pos, quantity |-> quantity, premium |-> premium, strike |-> strike]

Max2(a, b) == IF a >= b THEN a ELSE b

(* payoff with the premium of a short leg subtracted instead of added *)
payoff_short_sign(stock_price, leg) ==
    LET call == leg.type = "CALL"
        intrinsic == IF call THEN Max2(stock_price - leg.strike, 0)
                             ELSE Max2(leg.strike - stock_price, 0)
        is_long == IF call THEN leg.pos = "LONG_CALL" ELSE leg.pos = "LONG_PUT"
    IN  IF is_long THEN intrinsic - leg.premium ELSE (-intrinsic) - leg.premium

(* payoff(stock_price, leg): single-leg P/L at expiry *)
payoff(stock_price, leg) ==
    LET call == leg.type = "CALL"
        intrinsic == IF call THEN Max2(stock_price - leg.strike, 0)
                             ELSE Max2(leg.strike - stock_price, 0)
        is_long == IF call THEN leg.pos = "LONG_CALL" ELSE leg.pos = "LONG_PUT"
    IN  IF is_long THEN intrinsic - leg.premium ELSE (-intrinsic) + leg.premium

(* value * (pct / 100.0) *)
Pct(value, pct) == (value * pct) \div 100

upper_of(underlying, pct) == underlying + Pct(underlying, pct)
lower_of(underlying, pct) == underlying - Pct(underlying, pct)

(* linspace as with endpoint=False: num steps, the last point short of stop *)
linspace_no_endpoint(start, stop, num) ==
    LET step == (stop - start) \div num
    IN  [i \in 1..num |-> (i - 1) * step + start]

(* np.linspace(start, stop, num), endpoint included: step = (stop - start) / (num - 1), *)
(* x[i] = i * step + start, and the last point is set to stop.                          *)
linspace(start, stop, num) ==
    LET step == (stop - start) \div (num - 1)
    IN  [i \in 1..num |-> IF i = num THEN stop ELSE (i - 1) * step + start]

(* the inner loop without the quantity factor *)
RECURSIVE accumulate_unit_quantity(_, _, _, _)
accumulate_unit_quantity(price, ls, k, total) ==
    IF k > Len(ls) THEN total
    ELSE accumulate_unit_quantity(price, ls, k + 1, total + payoff(price, ls[k]))

(* the inner loop: total = 0.0; for leg in legs: total += payoff(price, leg) * leg.quantity *)
RECURSIVE accumulate(_, _, _, _)
accumulate(price, ls, k, total) ==
    IF k > Len(ls) THEN total
    ELSE accumulate(price, ls, k + 1, total + payoff(price, ls[k]) * ls[k].quantity)

(* the outer loop with total starting at the price instead of 0.0 *)
curve_y_total_from_price(x, ls) == [i \in 1..Len(x) |-> accumulate(x[i], ls, 1, x[i])]

curve_y(x, ls) == [i \in 1..Len(x) |-> accumulate(x[i], ls, 1, 0)]

(* np.max / np.min / np.argmax / np.argmin: reductions over the array in index order. *)
(* The range lo..hi is reduced by halves (the evaluation depth stays logarithmic);     *)
(* for the arg-reductions an equal value at a higher index never replaces the one at   *)
(* the lower index.  Positions are 1-based here; the 0-based Python index is pos - 1.  *)
RECURSIVE np_max(_, _, _)
np_max(y, lo, hi) ==
    IF lo = hi THEN y[lo]
    ELSE LET mid == (lo + hi) \div 2
             l == np_max(y, lo, mid)
             r == np_max(y, mid + 1, hi)
         IN  IF r > l THEN r ELSE l

RECURSIVE np_min(_, _, _)
np_min(y, lo, hi) ==
    IF lo = hi THEN y[lo]
    ELSE LET mid == (lo + hi) \div 2
             l == np_min(y, lo, mid)
             r == np_min(y, mid + 1, hi)
         IN  IF r < l THEN r ELSE l

(* argmax keeping the last of equal values *)
RECURSIVE argmax_pos_last(_, _, _)
argmax_pos_last(y, lo, hi) ==
    IF lo = hi THEN lo
    ELSE LET mid == (lo + hi) \div 2
             l == argmax_pos_last(y, lo, mid)
             r == argmax_pos_last(y, mid + 1, hi)
         IN  IF y[r] >= y[l] THEN r ELSE l

RECURSIVE argmax_pos(_, _, _)
argmax_pos(y, lo, hi) ==
    IF lo = hi THEN lo
    ELSE LET mid == (lo + hi) \div 2
             l == argmax_pos(y, lo, mid)
             r == argmax_pos(y, mid + 1, hi)
         IN  IF y[r] > y[l] THEN r ELSE l

RECURSIVE argmin_pos(_, _, _)
argmin_pos(y, lo, hi) ==
    IF lo = hi THEN lo
    ELSE LET mid == (lo + hi) \div 2
             l == argmin_pos(y, lo, mid)
             r == argmin_pos(y, mid + 1, hi)
         IN  IF y[r] < y[l] THEN r ELSE l

np_argmax(y) == argmax_pos(y, 1, Len(y)) - 1
np_argmin(y) == argmin_pos(y, 1, Len(y)) - 1

starts_with_long(pos) == pos \in {"LONG_CALL", "LONG_PUT"}
starts_with_short(pos) == pos \in {"SHORT_CALL", "SHORT_PUT"}

(* the long sum with negative quantities clamped to 0 *)
RECURSIVE long_total_clamped(_, _)
long_total_clamped(ls, k) ==
    IF k > Len(ls) THEN 0
    ELSE (IF starts_with_long(ls[k].pos) THEN ls[k].premium * Max2(ls[k].quantity, 0) ELSE 0)
         + long_total_clamped(ls, k + 1)

(* sum(l.premium * l.quantity for l in legs if l.pos.startswith("LONG")) *)
RECURSIVE long_total(_, _)
long_total(ls, k) ==
    IF k > Len(ls) THEN 0
    ELSE (IF starts_with_long(ls[k].pos) THEN ls[k].premium * ls[k].quantity ELSE 0)
         + long_total(ls, k + 1)

RECURSIVE short_total(_, _)
short_total(ls, k) ==
    IF k > Len(ls) THEN 0
    ELSE (IF starts_with_short(ls[k].pos) THEN ls[k].premium * ls[k].quantity ELSE 0)
         + short_total(ls, k + 1)

(* total cost as the sum of both premium totals *)
total_cost_added(ls) == long_total(ls, 1) + short_total(ls, 1)

(* total_cost = long_total - short_total *)
total_cost_of(ls) == long_total(ls, 1) - short_total(ls, 1)

(* compute_curve(underlying_price, std_dev_pct, legs) *)
compute_curve(underlying, pct, ls) ==
    LET upper == upper_of(underlying, pct)
        lower == lower_of(underlying, pct)
        x == linspace(lower, upper, NumPoints)
        y == curve_y(x, ls)
    IN  [x |-> x,
         y |-> y,
         max_gain |-> np_max(y, 1, Len(y)),
         min_gain |-> np_min(y, 1, Len(y)),
         i_max |-> np_argmax(y),
         i_min |-> np_argmin(y),
         total_cost |-> total_cost_of(ls)]

(* main(): the "simple inference" on the results *)
threshold_of(underlying) == Pct(underlying, ThresholdPct)

(* the label with the boundaries counted as bullish / bearish *)
skew_of_inclusive(max_gain_stock_price, underlying) ==
    IF max_gain_stock_price >= underlying + threshold_of(underlying) THEN "bullish"
    ELSE IF max_gain_stock_price <= underlying - threshold_of(underlying) THEN "bearish"
    ELSE "neutral"

skew_of(max_gain_stock_price, underlying) ==
    IF max_gain_stock_price > underlying + threshold_of(underlying) THEN "bullish"
    ELSE IF max_gain_stock_price < underlying - threshold_of(underlying) THEN "bearish"
    ELSE "neutral"

decision_of(max_gain) == IF max_gain > 0 THEN "invest" ELSE "dont_invest"

----------------------------------------------------------------------------
(* Inputs *)

NoResults == [x |-> <<>>, y |-> <<>>, max_gain |-> 0, min_gain |-> 0,
              i_max |-> 0, i_min |-> 0, total_cost |-> 0]

Absent == "absent"

(* <<underlying price, range percent>> the sidebar can deliver: 1.0 .. 1000.0, 0.0 .. 100.0 *)
SidebarMarkets ==
    {<<Dollars(100), 10>>, <<Dollars(100), 5>>, <<Dollars(60), 0>>, <<Dollars(60), 100>>}

(* a range the sidebar refuses, for direct calls of compute_curve *)
WideMarkets == {<<Dollars(100), 120>>}

(* legs the sidebar can deliver: the quantity input has no minimum *)
LegChoices ==
    {OptionLeg("CALL", "LONG_CALL", 1, Dollars(5), Dollars(100)),
     OptionLeg("CALL", "SHORT_CALL", 1, Dollars(3), Dollars(105)),
     OptionLeg("PUT", "LONG_PUT", 1, Dollars(5), Dollars(95)),
     OptionLeg("PUT", "SHORT_PUT", 2, Dollars(3), Dollars(100)),
     OptionLeg("CALL", "LONG_CALL", -1, Dollars(3), Dollars(105)),
     OptionLeg("CALL", "SHORT_CALL", -2, Dollars(5), Dollars(95)),
     OptionLeg("PUT", "LONG_PUT", -2, Dollars(3), Dollars(100)),
     OptionLeg("PUT", "SHORT_PUT", -1, Dollars(5), Dollars(105))}

LegLists(lo, hi) == UNION {[1..n -> LegChoices] : n \in lo..hi}

----------------------------------------------------------------------------
(* Page run of main() and direct calls of compute_curve *)

(* A page run of main() starts with what build_sidebar() returns: at least one leg    *)
(* (option_count has min_value=1) and a range within 0 .. 100.  compute_curve itself  *)
(* checks nothing, so a direct call covers the arguments the sidebar cannot produce:  *)
(* an empty leg list, or a range above 100.                                           *)
InitCurve ==
    /\ pc = "curve"
    /\ \/ /\ caller = "main"
          /\ \E m \in SidebarMarkets : underlying_price = m[1] /\ std_dev_pct = m[2]
          /\ legs \in LegLists(1, MaxLegs)
       \/ /\ caller = "direct"
          /\ \/ /\ \E m \in SidebarMarkets \cup WideMarkets :
                      underlying_price = m[1] /\ std_dev_pct = m[2]
                /\ legs = <<>>
             \/ /\ \E m \in WideMarkets : underlying_price = m[1] /\ std_dev_pct = m[2]
                /\ legs \in LegLists(1, MaxLegs)
    /\ results = NoResults
    /\ skew = ""
    /\ decision = ""

(* Spec starts where language_selector() has returned and the sidebar is built *)
ParkedLang ==
    /\ query_lang = Absent
    /\ session_lang = Absent
    /\ lang_select = Absent
    /\ rendered_for = Absent
    /\ lang_code = Absent
    /\ chosen = Absent
    /\ lpc = "idle"

Init == InitCurve /\ ParkedLang

run_compute_curve ==
    /\ pc = "curve"
    /\ results' = compute_curve(underlying_price, std_dev_pct, legs)
    /\ pc' = IF caller = "main" THEN "infer" ELSE "done"
    /\ UNCHANGED <<caller, underlying_price, std_dev_pct, legs, skew, decision>>
    /\ UNCHANGED langVars

(* main(): skew and decision from the results *)
simple_inference ==
    /\ pc = "infer"
    /\ skew' = skew_of(results.x[results.i_max + 1], underlying_price)
    /\ decision' = decision_of(results.max_gain)
    /\ pc' = "done"
    /\ UNCHANGED <<caller, underlying_price, std_dev_pct, legs, results>>
    /\ UNCHANGED langVars

Next ==
    \/ run_compute_curve
    \/ simple_inference

Spec == Init /\ [][Next]_vars

----------------------------------------------------------------------------
(* i18n.py: get_lang() and language_selector() over a Streamlit session *)

TRANSLATIONS == {"en", "uk"}                 \* the keys of the TRANSLATIONS table
LangOptions == {"en", "uk"}                  \* options=["en", "uk"] of the selectbox
UrlLangs == {"en", "uk", "ru", "de", "xx"}   \* values of ?lang= a visitor may open the page with

(* st.session_state.get("lang", "en") *)
session_get_lang(session) == IF session = Absent THEN "en" ELSE session

RangeInputs == {10, 5}                        \* values the visitor gives the range input

DefaultLeg == OptionLeg("CALL", "LONG_CALL", 1, Dollars(5), Dollars(100))

(* the widgets of a fresh session hold their defaults (value=100.0, value=10.0, one *)
(* leg: CALL, LONG_CALL, quantity 1, premium 5.0, strike 100.0); the script run has *)
(* not yet passed the sidebar                                                       *)
FreshPage ==
    /\ pc = "sidebar"
    /\ caller = "main"
    /\ underlying_price = Dollars(100)
    /\ std_dev_pct = 10
    /\ legs = <<DefaultLeg>>
    /\ results = NoResults
    /\ skew = ""
    /\ decision = ""

(* A visitor opens the page, with or without ?lang=xx: a fresh session, whose first *)
(* script run is about to enter language_selector().                                *)
InitLang ==
    /\ FreshPage
    /\ query_lang \in UrlLangs \cup {Absent}
    /\ session_lang = Absent
    /\ lang_select = Absent
    /\ rendered_for = Absent
    /\ lang_code = Absent
    /\ chosen = Absent
    /\ lpc = "get_lang"

(* get_lang(): a supported ?lang= value is stored in the session; the session's *)
(* language, default "en", is returned                                          *)
get_lang ==
    /\ lpc = "get_lang"
    /\ session_lang' = IF query_lang # Absent /\ query_lang \in TRANSLATIONS
                       THEN query_lang ELSE session_lang
    /\ lang_code' = session_get_lang(session_lang')
    /\ lpc' = "selectbox"
    /\ UNCHANGED <<query_lang, lang_select, rendered_for, chosen>>
    /\ UNCHANGED curveVars

(* st.selectbox(t("language"), options, index=index of lang_code, key="lang_select"): *)
(* a selectbox rendered as before returns its stored value; one rendered for the      *)
(* first time returns options[index]; one whose label and index have changed since    *)
(* the last run returns either (Streamlit releases differ on whether the key alone    *)
(* identifies the widget).                                                            *)
selectbox ==
    /\ lpc = "selectbox"
    /\ lang_code \in LangOptions
    /\ \E value \in LangOptions :
          /\ \/ lang_select = Absent /\ value = lang_code
             \/ lang_select # Absent /\ rendered_for = lang_code /\ value = lang_select
             \/ lang_select # Absent /\ rendered_for # lang_code
                   /\ value \in {lang_select, lang_code}
          /\ chosen' = value
          /\ lang_select' = value
    /\ rendered_for' = lang_code
    /\ lpc' = "sync"
    /\ UNCHANGED <<query_lang, session_lang, lang_code>>
    /\ UNCHANGED curveVars

(* if chosen != session language: store it, write ?lang=chosen, st.rerun(); *)
(* otherwise language_selector returns and the run goes on                  *)
sync_url ==
    /\ lpc = "sync"
    /\ IF chosen # session_get_lang(session_lang)
       THEN /\ session_lang' = chosen
            /\ query_lang' = chosen
            /\ lpc' = "get_lang"
       ELSE /\ lpc' = "idle"
            /\ UNCHANGED <<session_lang, query_lang>>
    /\ UNCHANGED <<lang_select, rendered_for, lang_code, chosen>>
    /\ UNCHANGED curveVars

(* build_sidebar(), once language_selector() has returned: the other widgets hand *)
(* main() their values                                                            *)
build_sidebar ==
    /\ pc = "sidebar"
    /\ lpc = "idle"
    /\ pc' = "curve"
    /\ UNCHANGED <<caller, underlying_price, std_dev_pct, legs, results, skew, decision>>
    /\ UNCHANGED langVars

(* what a rerun does to the page: the script starts over, the widgets keep their values *)
Rerun ==
    /\ pc' = "sidebar"
    /\ results' = NoResults
    /\ skew' = ""
    /\ decision' = ""
    /\ lpc' = "get_lang"

(* the visitor picks a language in the selectbox: its value changes, the script reruns *)
pick_language ==
    /\ pc = "done"
    /\ \E value \in LangOptions \ {lang_select} : lang_select' = value
    /\ Rerun
    /\ UNCHANGED <<caller, underlying_price, std_dev_pct, legs>>
    /\ UNCHANGED <<query_lang, session_lang, rendered_for, lang_code, chosen>>

(* the visitor changes the range input: the script reruns with the same session *)
change_range ==
    /\ pc = "done"
    /\ \E r \in RangeInputs \ {std_dev_pct} : std_dev_pct' = r
    /\ Rerun
    /\ UNCHANGED <<caller, underlying_price, legs>>
    /\ UNCHANGED <<query_lang, session_lang, lang_select, rendered_for, lang_code, chosen>>

(* the visitor loads the page again with a ?lang= of their choice: a new session *)
open_url ==
    /\ pc = "done"
    /\ pc' = "sidebar"
    /\ caller' = "main"
    /\ underlying_price' = Dollars(100)
    /\ std_dev_pct' = 10
    /\ legs' = <<DefaultLeg>>
    /\ results' = NoResults
    /\ skew' = ""
    /\ decision' = ""
    /\ query_lang' \in UrlLangs \cup {Absent}
    /\ session_lang' = Absent
    /\ lang_select' = Absent
    /\ rendered_for' = Absent
    /\ lang_code' = Absent
    /\ chosen' = Absent
    /\ lpc' = "get_lang"

NextLang ==
    \/ get_lang
    \/ selectbox
    \/ sync_url
    \/ build_sidebar
    \/ run_compute_curve
    \/ simple_inference
    \/ pick_language
    \/ change_range
    \/ open_url

SpecLang == InitLang /\ [][NextLang]_vars

----------------------------------------------------------------------------
(* Python floats.  SpecFP runs the same code as Spec with every number a binary64   *)
(* double and every operation rounded to nearest, ties to even, as CPython and      *)
(* NumPy compute it.  No value of the runs modelled leaves the normal range, so     *)
(* infinities, NaNs and subnormals are not represented.                             *)

(* Naturals of any size: little-endian sequences of limbs below Base, no leading zero limb. *)
(* Every operation of the arithmetic is evaluated by Arith, which names it.                  *)
LimbBits == 15
Base == 2^LimbBits

RECURSIVE Arith(_, _)

BAdd(a, b) == Arith("BAdd", <<a, b>>)
BSub(a, b) == Arith("BSub", <<a, b>>)
BMulSmall(a, k) == Arith("BMulSmall", <<a, k>>)
BMul(a, b) == Arith("BMul", <<a, b>>)
BShl(a, n) == Arith("BShl", <<a, n>>)
BDivSmall(a, d) == Arith("BDivSmall", <<a, d>>)
BShr(a, n) == Arith("BShr", <<a, n>>)
BBitLen(a) == Arith("BBitLen", <<a>>)
BCmp(a, b) == Arith("BCmp", <<a, b>>)
FRound(s, n, e) == Arith("FRound", <<s, n, e>>)
FFromInt(n) == Arith("FFromInt", <<n>>)
FCmp(a, b) == Arith("FCmp", <<a, b>>)
FAdd(a, b) == Arith("FAdd", <<a, b>>)
FMul(a, b) == Arith("FMul", <<a, b>>)
FDivInt(a, d) == Arith("FDivInt", <<a, d>>)

Limb(a, i) == IF i <= Len(a) THEN a[i] ELSE 0

RECURSIVE BNorm(_)
BNorm(a) == IF a = <<>> THEN <<>>
            ELSE IF a[Len(a)] = 0 THEN BNorm(SubSeq(a, 1, Len(a) - 1)) ELSE a

BFromNat(n) == BNorm(<<n % Base, (n \div Base) % Base, n \div (Base * Base)>>)

RECURSIVE BAddFrom(_, _, _, _)
BAddFrom(a, b, i, c) ==
    IF i > Len(a) /\ i > Len(b) THEN (IF c = 0 THEN <<>> ELSE <<c>>)
    ELSE LET t == Limb(a, i) + Limb(b, i) + c
         IN  <<t % Base>> \o BAddFrom(a, b, i + 1, t \div Base)

BAddDef(a, b) == BNorm(BAddFrom(a, b, 1, 0))

(* a - b for a >= b *)
RECURSIVE BSubFrom(_, _, _, _)
BSubFrom(a, b, i, c) ==
    IF i > Len(a) THEN <<>>
    ELSE LET t == a[i] - Limb(b, i) - c
         IN  IF t < 0 THEN <<t + Base>> \o BSubFrom(a, b, i + 1, 1)
                      ELSE <<t>> \o BSubFrom(a, b, i + 1, 0)

BSubDef(a, b) == BNorm(BSubFrom(a, b, 1, 0))

RECURSIVE BMulSmallFrom(_, _, _, _)
BMulSmallFrom(a, k, i, c) ==
    IF i > Len(a) THEN (IF c = 0 THEN <<>> ELSE <<c>>)
    ELSE LET t == a[i] * k + c
         IN  <<t % Base>> \o BMulSmallFrom(a, k, i + 1, t \div Base)

(* a * k for k < Base *)
BMulSmallDef(a, k) == BNorm(BMulSmallFrom(a, k, 1, 0))

RECURSIVE BMulFrom(_, _, _)
BMulFrom(a, b, j) ==
    IF j > Len(b) THEN <<>>
    ELSE BAdd(BMulSmall(a, b[j]), <<0>> \o BMulFrom(a, b, j + 1))

BMulDef(a, b) == BNorm(BMulFrom(a, b, 1))

Zeros(n) == [i \in 1..n |-> 0]

(* a * 2^n *)
BShlDef(a, n) == IF a = <<>> THEN <<>>
                 ELSE Zeros(n \div LimbBits) \o BMulSmall(a, 2^(n % LimbBits))

(* <<quotient, remainder>> of a by d, 0 < d <= Base *)
RECURSIVE BDivFrom(_, _, _, _)
BDivFrom(a, d, i, r) ==
    IF i = 0 THEN <<<<>>, r>>
    ELSE LET cur == r * Base + a[i]
             rest == BDivFrom(a, d, i - 1, cur % d)
         IN  <<rest[1] \o <<cur \div d>>, rest[2]>>

BDivSmallDef(a, d) == LET qr == BDivFrom(a, d, Len(a), 0) IN <<BNorm(qr[1]), qr[2]>>

(* floor(a / 2^n) *)
BShrDef(a, n) ==
    LET k == n \div LimbBits
    IN  IF k >= Len(a) THEN <<>>
        ELSE BDivSmall(SubSeq(a, k + 1, Len(a)), 2^(n % LimbBits))[1]

RECURSIVE SmallBitLen(_)
SmallBitLen(v) == IF v = 0 THEN 0 ELSE 1 + SmallBitLen(v \div 2)

BBitLenDef(a) == IF a = <<>> THEN 0 ELSE LimbBits * (Len(a) - 1) + SmallBitLen(a[Len(a)])

RECURSIVE BCmpFrom(_, _, _)
BCmpFrom(a, b, i) ==
    IF i = 0 THEN 0
    ELSE IF a[i] < b[i] THEN -1
    ELSE IF a[i] > b[i] THEN 1
    ELSE BCmpFrom(a, b, i - 1)

(* -1, 0, 1 as a < b, a = b, a > b *)
BCmpDef(a, b) ==
    IF Len(a) < Len(b) THEN -1
    ELSE IF Len(a) > Len(b) THEN 1
    ELSE BCmpFrom(a, b, Len(a))

BIsOdd(a) == a # <<>> /\ a[1] % 2 = 1

(* binary64: a finite double is (-1)^s * m * 2^e with m below 2^Prec *)
Prec == 53

Float(s, m, e) == [s |-> s, m |-> m, e |-> e]
FZero == Float(0, <<>>, 0)
FIsZero(a) == a.m = <<>>

(* the double nearest to (-1)^s * n * 2^e, ties to even *)
FRoundDef(s, n, e) ==
    LET len == BBitLen(n)
    IN  IF len = 0 THEN FZero
        ELSE IF len <= Prec THEN Float(s, n, e)
        ELSE LET k == len - Prec
                 q == BShr(n, k)
                 rem == BSub(n, BShl(q, k))
                 half == BShl(<<1>>, k - 1)
                 c == BCmp(rem, half)
                 up == c > 0 \/ (c = 0 /\ BIsOdd(q))
             IN  Float(s, IF up THEN BAdd(q, <<1>>) ELSE q, e + k)

FFromIntDef(n) == IF n >= 0 THEN FRound(0, BFromNat(n), 0) ELSE FRound(1, BFromNat(-n), 0)

FNeg(a) == IF FIsZero(a) THEN a ELSE Float(1 - a.s, a.m, a.e)

(* magnitudes: -1, 0, 1 as |a| < |b|, |a| = |b|, |a| > |b| *)
FCmpMag(a, b) ==
    IF FIsZero(a) THEN (IF FIsZero(b) THEN 0 ELSE -1)
    ELSE IF FIsZero(b) THEN 1
    ELSE LET ta == BBitLen(a.m) + a.e
             tb == BBitLen(b.m) + b.e
         IN  IF ta < tb THEN -1
             ELSE IF ta > tb THEN 1
             ELSE IF a.e >= b.e THEN BCmp(BShl(a.m, a.e - b.e), b.m)
             ELSE BCmp(a.m, BShl(b.m, b.e - a.e))

FCmpDef(a, b) ==
    IF FIsZero(a) /\ FIsZero(b) THEN 0
    ELSE IF FIsZero(a) THEN (IF b.s = 0 THEN -1 ELSE 1)
    ELSE IF FIsZero(b) THEN (IF a.s = 0 THEN 1 ELSE -1)
    ELSE IF a.s # b.s THEN (IF a.s = 1 THEN -1 ELSE 1)
    ELSE LET c == FCmpMag(a, b) IN IF a.s = 0 THEN c ELSE -c

FLess(a, b) == FCmp(a, b) < 0
FGreater(a, b) == FCmp(a, b) > 0
FEq(a, b) == FCmp(a, b) = 0

FAddDef(a, b) ==
    IF FIsZero(a) THEN b
    ELSE IF FIsZero(b) THEN a
    ELSE LET e == IF a.e <= b.e THEN a.e ELSE b.e
             ma == BShl(a.m, a.e - e)
             mb == BShl(b.m, b.e - e)
         IN  IF a.s = b.s THEN FRound(a.s, BAdd(ma, mb), e)
             ELSE LET c == BCmp(ma, mb)
                  IN  IF c = 0 THEN FZero
                      ELSE IF c > 0 THEN FRound(a.s, BSub(ma, mb), e)
                      ELSE FRound(b.s, BSub(mb, ma), e)

FSub(a, b) == FAdd(a, FNeg(b))

FMulDef(a, b) ==
    IF FIsZero(a) \/ FIsZero(b) THEN FZero
    ELSE FRound((a.s + b.s) % 2, BMul(a.m, b.m), a.e + b.e)

(* a / d for an integer 0 < d < Base: the quotient to 70 bits below a's last bit, *)
(* with one more bit that is set when the division left a remainder               *)
FDivIntDef(a, d) ==
    IF FIsZero(a) THEN FZero
    ELSE LET qr == BDivSmall(BShl(a.m, 70), d)
             n == BAdd(BShl(qr[1], 1), IF qr[2] = 0 THEN <<>> ELSE <<1>>)
         IN  FRound(a.s, n, a.e - 71)

FMax(a, b) == IF FCmp(b, a) > 0 THEN b ELSE a

Arith(op, args) ==
    CASE op = "BAdd" -> BAddDef(args[1], args[2])
      [] op = "BSub" -> BSubDef(args[1], args[2])
      [] op = "BMulSmall" -> BMulSmallDef(args[1], args[2])
      [] op = "BMul" -> BMulDef(args[1], args[2])
      [] op = "BShl" -> BShlDef(args[1], args[2])
      [] op = "BDivSmall" -> BDivSmallDef(args[1], args[2])
      [] op = "BShr" -> BShrDef(args[1], args[2])
      [] op = "BBitLen" -> BBitLenDef(args[1])
      [] op = "BCmp" -> BCmpDef(args[1], args[2])
      [] op = "FRound" -> FRoundDef(args[1], args[2], args[3])
      [] op = "FFromInt" -> FFromIntDef(args[1])
      [] op = "FCmp" -> FCmpDef(args[1], args[2])
      [] op = "FAdd" -> FAddDef(args[1], args[2])
      [] op = "FMul" -> FMulDef(args[1], args[2])
      [] op = "FDivInt" -> FDivIntDef(args[1], args[2])

(* the double a decimal literal or a typed-in value n/d denotes (0 < d < Base) *)
FDec(n, d) == FDivInt(FFromInt(n), d)

(* payoff(stock_price, leg) on doubles *)
fp_payoff(stock_price, leg) ==
    LET call == leg.type = "CALL"
        intrinsic == IF call THEN FMax(FSub(stock_price, leg.strike), FZero)
                             ELSE FMax(FSub(leg.strike, stock_price), FZero)
        is_long == IF call THEN leg.pos = "LONG_CALL" ELSE leg.pos = "LONG_PUT"
    IN  IF is_long THEN FSub(intrinsic, leg.premium) ELSE FAdd(FNeg(intrinsic), leg.premium)

(* underlying_price * (1 + std_dev_pct / 100.0) and underlying_price * (1 - std_dev_pct / 100.0) *)
fp_upper_of(underlying, pct) == FMul(underlying, FAdd(FFromInt(1), FDivInt(pct, 100)))
fp_lower_of(underlying, pct) == FMul(underlying, FSub(FFromInt(1), FDivInt(pct, 100)))

(* np.linspace(start, stop, num): step = (stop - start) / (num - 1), *)
(* y = arange(0, num) * step + start, y[-1] = stop                   *)
fp_linspace(start, stop, num) ==
    LET step == FDivInt(FSub(stop, start), num - 1)
    IN  <<>> \o [i \in 1..num |->
                    IF i = num THEN stop ELSE FAdd(FMul(FFromInt(i - 1), step), start)]

RECURSIVE fp_accumulate(_, _, _, _)
fp_accumulate(price, ls, k, total) ==
    IF k > Len(ls) THEN total
    ELSE fp_accumulate(price, ls, k + 1,
                       FAdd(total, FMul(fp_payoff(price, ls[k]), FFromInt(ls[k].quantity))))

fp_curve_y(x, ls) == <<>> \o [i \in 1..Len(x) |-> fp_accumulate(x[i], ls, 1, FZero)]

RECURSIVE fp_np_max(_, _, _)
fp_np_max(y, lo, hi) ==
    IF lo = hi THEN y[lo]
    ELSE LET mid == (lo + hi) \div 2
             l == fp_np_max(y, lo, mid)
             r == fp_np_max(y, mid + 1, hi)
         IN  IF FGreater(r, l) THEN r ELSE l

RECURSIVE fp_np_min(_, _, _)
fp_np_min(y, lo, hi) ==
    IF lo = hi THEN y[lo]
    ELSE LET mid == (lo + hi) \div 2
             l == fp_np_min(y, lo, mid)
             r == fp_np_min(y, mid + 1, hi)
         IN  IF FLess(r, l) THEN r ELSE l

RECURSIVE fp_argmax_pos(_, _, _)
fp_argmax_pos(y, lo, hi) ==
    IF lo = hi THEN lo
    ELSE LET mid == (lo + hi) \div 2
             l == fp_argmax_pos(y, lo, mid)
             r == fp_argmax_pos(y, mid + 1, hi)
         IN  IF FGreater(y[r], y[l]) THEN r ELSE l

RECURSIVE fp_argmin_pos(_, _, _)
fp_argmin_pos(y, lo, hi) ==
    IF lo = hi THEN lo
    ELSE LET mid == (lo + hi) \div 2
             l == fp_argmin_pos(y, lo, mid)
             r == fp_argmin_pos(y, mid + 1, hi)
         IN  IF FLess(y[r], y[l]) THEN r ELSE l

(* sum(l.premium * l.quantity for l in legs if ...): left to right from 0 *)
RECURSIVE fp_premium_total(_, _, _, _)
fp_premium_total(ls, k, long, acc) ==
    IF k > Len(ls) THEN acc
    ELSE fp_premium_total(ls, k + 1, long,
             IF starts_with_long(ls[k].pos) = long
             THEN FAdd(acc, FMul(ls[k].premium, FFromInt(ls[k].quantity)))
             ELSE acc)

(* lines 54-72 of compute_curve on doubles: the statistics and the returned dict *)
fp_stats(x, y, ls) ==
    [x |-> x,
     y |-> y,
     max_gain |-> fp_np_max(y, 1, Len(y)),
     min_gain |-> fp_np_min(y, 1, Len(y)),
     i_max |-> fp_argmax_pos(y, 1, Len(y)) - 1,
     i_min |-> fp_argmin_pos(y, 1, Len(y)) - 1,
     total_cost |-> FSub(fp_premium_total(ls, 1, TRUE, FZero), fp_premium_total(ls, 1, FALSE, FZero))]

(* threshold = 0.05 * underlying_price *)
fp_threshold_of(underlying) == FMul(FDec(ThresholdPct, 100), underlying)

fp_skew_of(max_gain_stock_price, underlying) ==
    IF FGreater(max_gain_stock_price, FAdd(underlying, fp_threshold_of(underlying)))
    THEN "bullish"
    ELSE IF FLess(max_gain_stock_price, FSub(underlying, fp_threshold_of(underlying)))
    THEN "bearish"
    ELSE "neutral"

fp_decision_of(max_gain) == IF FGreater(max_gain, FZero) THEN "invest" ELSE "dont_invest"

(* values the sidebar delivers: prices typed to one decimal, whole percents *)
FPUnderlyings == {FDec(11, 10), FDec(22, 10), FFromInt(100)}
FPRanges == {FFromInt(5), FFromInt(3), FFromInt(10)}
FPLegChoices ==
    {OptionLeg("CALL", "LONG_CALL", 1, FDec(5, 100), FFromInt(1)),
     OptionLeg("PUT", "LONG_PUT", 1, FDec(5, 100), FFromInt(3)),
     OptionLeg("PUT", "SHORT_PUT", 2, FDec(1, 10), FFromInt(100)),
     OptionLeg("CALL", "SHORT_CALL", -1, FFromInt(5), FFromInt(100))}

(* main has called compute_curve with the sidebar's values; while compute_curve *)
(* runs, results holds its locals                                              *)
InitFP ==
    /\ pc = "bounds"
    /\ caller = "main"
    /\ underlying_price \in FPUnderlyings
    /\ std_dev_pct \in FPRanges
    /\ legs \in {<<l>> : l \in FPLegChoices}
    /\ results = NoResults
    /\ skew = ""
    /\ decision = ""
    /\ ParkedLang

fp_bounds ==
    /\ pc = "bounds"
    /\ results' = [upper |-> fp_upper_of(underlying_price, std_dev_pct),
                   lower |-> fp_lower_of(underlying_price, std_dev_pct)]
    /\ pc' = "grid"
    /\ UNCHANGED <<caller, underlying_price, std_dev_pct, legs, skew, decision>>
    /\ UNCHANGED langVars

fp_grid ==
    /\ pc = "grid"
    /\ results' = [x |-> fp_linspace(results.lower, results.upper, NumPoints)]
    /\ pc' = "loop"
    /\ UNCHANGED <<caller, underlying_price, std_dev_pct, legs, skew, decision>>
    /\ UNCHANGED langVars

fp_loop ==
    /\ pc = "loop"
    /\ results' = [x |-> results.x, y |-> fp_curve_y(results.x, legs)]
    /\ pc' = "stats"
    /\ UNCHANGED <<caller, underlying_price, std_dev_pct, legs, skew, decision>>
    /\ UNCHANGED langVars

fp_return ==
    /\ pc = "stats"
    /\ results' = fp_stats(results.x, results.y, legs)
    /\ pc' = "infer"
    /\ UNCHANGED <<caller, underlying_price, std_dev_pct, legs, skew, decision>>
    /\ UNCHANGED langVars

fp_simple_inference ==
    /\ pc = "infer"
    /\ skew' = fp_skew_of(results.x[results.i_max + 1], underlying_price)
    /\ decision' = fp_decision_of(results.max_gain)
    /\ pc' = "done"
    /\ UNCHANGED <<caller, underlying_price, std_dev_pct, legs, results>>
    /\ UNCHANGED langVars

NextFP ==
    \/ fp_bounds
    \/ fp_grid
    \/ fp_loop
    \/ fp_return
    \/ fp_simple_inference

SpecFP == InitFP /\ [][NextFP]_vars

----------------------------------------------------------------------------
(* Properties of payoff and compute_curve (specification Spec) *)

(* compute_curve has just returned: main() is about to read the results, or a direct *)
(* call is over                                                                      *)
Computed == pc = "infer" \/ (pc = "done" /\ caller = "direct")

Grid == 1..NumPoints

is_long_code(pos) == pos \in {"LONG_CALL", "LONG_PUT"}
is_call_code(pos) == pos \in {"LONG_CALL", "SHORT_CALL"}

C1_Intrinsic(price, leg) ==
    IF is_call_code(leg.pos)
    THEN (IF price - leg.strike > 0 THEN price - leg.strike ELSE 0)
    ELSE (IF leg.strike - price > 0 THEN leg.strike - price ELSE 0)

(* C1: for each of the four position codes, payoff(price, leg) is intrinsic - premium  *)
(* for a LONG leg and premium - intrinsic for a SHORT leg, with intrinsic              *)
(* max(price - strike, 0) for a CALL and max(strike - price, 0) for a PUT; a LONG_CALL *)
(* pays -p below the strike and price - K - p from the strike on, a SHORT_PUT pays p   *)
(* from the strike on and p - (K - price) below it.  Checked at every grid price of    *)
(* every run, for every leg of the run.                                                *)
C1_PayoffFormula ==
    Computed =>
        \A k \in 1..Len(legs) : \A i \in Grid :
            LET leg == legs[k]
                price == results.x[i]
                v == payoff(price, leg)
            IN  /\ is_long_code(leg.pos) => v = C1_Intrinsic(price, leg) - leg.premium
                /\ ~is_long_code(leg.pos) => v = leg.premium - C1_Intrinsic(price, leg)
                /\ (leg.pos = "LONG_CALL" /\ price < leg.strike) => v = -leg.premium
                /\ (leg.pos = "LONG_CALL" /\ price >= leg.strike)
                       => v = price - leg.strike - leg.premium
                /\ (leg.pos = "SHORT_PUT" /\ price >= leg.strike) => v = leg.premium
                /\ (leg.pos = "SHORT_PUT" /\ price < leg.strike)
                       => v = leg.premium - (leg.strike - price)

(* a run whose legs hold a LONG_CALL and a SHORT_PUT, each with grid prices on both *)
(* sides of its strike                                                              *)
C1_Witness ==
    /\ Computed
    /\ \E k \in 1..Len(legs) :
          /\ legs[k].pos = "LONG_CALL"
          /\ \E i, j \in Grid : results.x[i] < legs[k].strike /\ results.x[j] > legs[k].strike
    /\ \E k \in 1..Len(legs) :
          /\ legs[k].pos = "SHORT_PUT"
          /\ \E i, j \in Grid : results.x[i] < legs[k].strike /\ results.x[j] > legs[k].strike

RECURSIVE C2_LegSum(_, _)
C2_LegSum(price, ls) ==
    IF ls = <<>> THEN 0
    ELSE payoff(price, Head(ls)) * Head(ls).quantity + C2_LegSum(price, Tail(ls))

(* C2: y has the length of x, and at every grid index y[i] is the sum over all legs of *)
(* payoff(x[i], leg) * leg.quantity.                                                    *)
C2_Superposition ==
    Computed =>
        /\ Len(results.y) = Len(results.x)
        /\ \A i \in Grid : results.y[i] = C2_LegSum(results.x[i], legs)

(* a run with two legs of different quantities, both contributing at some grid point *)
C2_Witness ==
    /\ Computed
    /\ Len(legs) >= 2
    /\ legs[1].quantity # legs[2].quantity
    /\ \E i \in Grid :
          /\ payoff(results.x[i], legs[1]) # 0
          /\ payoff(results.x[i], legs[2]) # 0
          /\ results.y[i] # 0

RECURSIVE C3_PremiumSum(_, _)
C3_PremiumSum(ls, long) ==
    IF ls = <<>> THEN 0
    ELSE (IF is_long_code(Head(ls).pos) = long THEN Head(ls).premium * Head(ls).quantity ELSE 0)
         + C3_PremiumSum(Tail(ls), long)

C3_Example ==
    <<OptionLeg("CALL", "LONG_CALL", 1, Dollars(5), Dollars(100)),
      OptionLeg("CALL", "SHORT_CALL", 1, Dollars(3), Dollars(105))>>

(* C3: total_cost is the sum of premium * quantity over the LONG legs minus the same *)
(* sum over the SHORT legs; LONG_CALL(premium 5, qty 1) with SHORT_CALL(premium 3,   *)
(* qty 1) gives 2.                                                                   *)
C3_TotalCost ==
    Computed =>
        /\ results.total_cost = C3_PremiumSum(legs, TRUE) - C3_PremiumSum(legs, FALSE)
        /\ legs = C3_Example => results.total_cost = Dollars(2)

(* the run of the example: a net debit of 2 *)
C3_Witness ==
    /\ Computed
    /\ legs = C3_Example
    /\ results.total_cost > 0

(* C4: max_gain = y[i_max] is at least every y[j], min_gain = y[i_min] is at most every *)
(* y[j], and no index below i_max (i_min) holds the maximum (minimum).                   *)
C4_Extrema ==
    Computed =>
        /\ results.i_max \in 0..(NumPoints - 1)
        /\ results.i_min \in 0..(NumPoints - 1)
        /\ results.max_gain = results.y[results.i_max + 1]
        /\ results.min_gain = results.y[results.i_min + 1]
        /\ \A j \in Grid : results.y[j] <= results.max_gain /\ results.y[j] >= results.min_gain
        /\ \A j \in Grid : j < results.i_max + 1 => results.y[j] # results.max_gain
        /\ \A j \in Grid : j < results.i_min + 1 => results.y[j] # results.min_gain

(* a run whose maximum and whose minimum are each attained at several grid points, *)
(* the maximum first at an index above 0                                            *)
C4_Witness ==
    /\ Computed
    /\ results.i_max > 0
    /\ \E j \in Grid : j > results.i_max + 1 /\ results.y[j] = results.max_gain
    /\ \E j \in Grid : j > results.i_min + 1 /\ results.y[j] = results.min_gain
    /\ results.max_gain > results.min_gain

(* C5: the grid has exactly 400 points, is ascending and evenly spaced, starts at   *)
(* lower = underlying * (1 - range/100) and ends at upper = underlying * (1 +       *)
(* range/100); nothing is clamped, so lower is zero or negative from range 100 on.  *)
C5_Grid ==
    Computed =>
        /\ Len(results.x) = 400
        /\ \A i \in 1..399 : results.x[i] <= results.x[i + 1]
        /\ \A i \in 1..399 : results.x[i + 1] - results.x[i] = results.x[2] - results.x[1]
        /\ 100 * results.x[1] = underlying_price * (100 - std_dev_pct)
        /\ 100 * results.x[400] = underlying_price * (100 + std_dev_pct)
        /\ std_dev_pct >= 100 => results.x[1] <= 0

(* a run with range above 100: the grid starts below zero *)
C5_Witness ==
    /\ Computed
    /\ std_dev_pct > 100
    /\ results.x[1] < 0
    /\ results.x[400] > results.x[1]

C6_Price == results.x[results.i_max + 1]

(* C6: the label is "bullish" exactly when priceAtMaxGain > underlying + 0.05 *       *)
(* underlying, "bearish" exactly when priceAtMaxGain < underlying - 0.05 * underlying, *)
(* "neutral" otherwise, both boundaries included; exactly one label is produced.       *)
C6_Label ==
    (pc = "done" /\ caller = "main") =>
        /\ skew \in {"bullish", "bearish", "neutral"}
        /\ skew = "bullish" <=> 100 * C6_Price > 105 * underlying_price
        /\ skew = "bearish" <=> 100 * C6_Price < 95 * underlying_price
        /\ skew = "neutral" <=> /\ 100 * C6_Price <= 105 * underlying_price
                                /\ 100 * C6_Price >= 95 * underlying_price

(* a page run whose maximum lies exactly on the upper boundary: neutral *)
C6_Witness ==
    /\ pc = "done"
    /\ caller = "main"
    /\ 100 * C6_Price = 105 * underlying_price
    /\ skew = "neutral"

C6_BullishReached == pc = "done" /\ skew = "bullish"
C6_BearishReached == pc = "done" /\ skew = "bearish"

(* C7: with an empty leg list compute_curve returns y[i] = 0 at every grid point, *)
(* total_cost = 0 and max_gain = min_gain = 0.                                    *)
C7_EmptyLegs ==
    (Computed /\ legs = <<>>) =>
        /\ Len(results.y) = NumPoints
        /\ \A i \in Grid : results.y[i] = 0
        /\ results.total_cost = 0
        /\ results.max_gain = 0
        /\ results.min_gain = 0

(* a returned call with no legs, over a grid that is not a single price *)
C7_Witness ==
    /\ Computed
    /\ legs = <<>>
    /\ Len(results.y) = NumPoints
    /\ results.x[1] # results.x[NumPoints]

C8_Flip(leg) ==
    LET other == CASE leg.pos = "LONG_CALL" -> "SHORT_CALL"
                   [] leg.pos = "SHORT_CALL" -> "LONG_CALL"
                   [] leg.pos = "LONG_PUT" -> "SHORT_PUT"
                   [] leg.pos = "SHORT_PUT" -> "LONG_PUT"
    IN  OptionLeg(leg.type, other, -leg.quantity, leg.premium, leg.strike)

C8_FlipAt(ls, k) == [ls EXCEPT ![k] = C8_Flip(ls[k])]

(* C8: a leg with quantity -q contributes the same y at every grid point and the same *)
(* amount to total_cost as the leg of the opposite direction (same kind, strike and   *)
(* premium) with quantity q: the two contribute the same to y at every grid point,    *)
(* and replacing any one leg of a run by its opposite leaves total_cost as returned.  *)
C8_NegativeQuantityFlips ==
    Computed =>
        \A k \in 1..Len(legs) :
            /\ \A i \in Grid :
                  payoff(results.x[i], legs[k]) * legs[k].quantity
                      = payoff(results.x[i], C8_Flip(legs[k])) * C8_Flip(legs[k]).quantity
            /\ total_cost_of(C8_FlipAt(legs, k)) = results.total_cost

(* a run with a LONG leg of negative quantity that moves y and total_cost *)
C8_Witness ==
    /\ Computed
    /\ \E k \in 1..Len(legs) :
          /\ legs[k].quantity < 0
          /\ legs[k].pos \in {"LONG_CALL", "LONG_PUT"}
          /\ legs[k].premium > 0
    /\ results.total_cost < 0
    /\ \E i \in Grid : results.y[i] # 0

----------------------------------------------------------------------------
(* Properties of language_selector (specification SpecLang) *)

C9_Active == session_get_lang(session_lang)

(* C9: whenever a run of language_selector finishes without a rerun, a lang query *)
(* parameter present in the URL equals the active language                        *)
(* st.session_state.get("lang", "en"), and the active language is a key of        *)
(* TRANSLATIONS.                                                                  *)
C9_UrlInSync ==
    lpc = "idle" =>
        /\ query_lang # Absent => query_lang = C9_Active
        /\ C9_Active \in TRANSLATIONS

(* C9, the part the code keeps: the active language is always a key of TRANSLATIONS, *)
(* and a finished run leaves a supported ?lang= value equal to it.                   *)
C9_SupportedUrlInSync ==
    /\ C9_Active \in TRANSLATIONS
    /\ (lpc = "idle" /\ query_lang \in TRANSLATIONS) => query_lang = C9_Active

(* a finished run after the visitor's choice was written to the URL *)
C9_Witness ==
    /\ lpc = "idle"
    /\ session_lang = "uk"
    /\ query_lang = "uk"
    /\ lang_select = "uk"

----------------------------------------------------------------------------
(* Properties of the label for small ranges (specifications Spec and SpecFP) *)

(* C10, in exact arithmetic: with 0 <= range <= 5 every grid price lies within *)
(* 5 percent of the underlying price and the label is "neutral".               *)
C10_NeutralInExactArithmetic ==
    (pc = "done" /\ caller = "main" /\ std_dev_pct >= 0 /\ std_dev_pct <= 5) =>
        /\ skew = "neutral"
        /\ \A i \in Grid : /\ 100 * results.x[i] <= 105 * underlying_price
                           /\ 100 * results.x[i] >= 95 * underlying_price

(* C10: for every underlying price > 0, every leg list and every range with   *)
(* 0 <= range <= 5, the label computed in main is "neutral"; "bullish" and    *)
(* "bearish" are reachable only when range > 5.                               *)
C10_SmallRangeNeutral ==
    (pc = "done" /\ caller = "main"
        /\ FCmp(std_dev_pct, FZero) >= 0 /\ FCmp(std_dev_pct, FFromInt(5)) <= 0)
        => skew = "neutral"

============================================================================
